---- MODULE Spec2Model ----
(***************************************************************************)
(* The analysis queue database of lib/cuckoo/core/database.py and the      *)
(* reporting engine of lib/cuckoo/core/reporter.py.                        *)
(*                                                                         *)
(* The store holds three tables (tasks, samples, guests).  Every method of *)
(* Database opens its own session; a query reads the committed rows at the *)
(* moment it runs, attribute assignments stay in the session, and          *)
(* session.commit() flushes them as one transaction: an INSERT per new     *)
(* object and, per loaded object, one UPDATE ... WHERE id = ? that carries *)
(* only the columns whose value differs from the loaded one.  Several      *)
(* processes (the scheduler, the submission utilities) use the same store, *)
(* so the steps of their calls interleave at the queries and the commits.  *)
(***************************************************************************)
EXTENDS Integers, Sequences, FiniteSets, TLC

VARIABLES
    tasks,      \* table "tasks": row id -> row
    samples,    \* table "samples": row id -> row
    guests,     \* table "guests": row id -> row
    now,        \* the wall clock read by datetime.now()
    imported,   \* per process: the clock value when database.py was imported
    call,       \* per process: the call in progress and its session's objects
    ret,        \* what the last call that ended handed to its caller
    returned,   \* per task id: how many fetch_and_process() calls returned it
    modules,    \* Report.__subclasses__(): the loaded reporting modules
    heap,       \* the objects of the results dictionary and of its copies
    report,     \* the Reporter.run() call: where it is, its list, its results
    invoked     \* the run() calls made on reporting modules, in order

\* The variables of the store and those of the reporting engine.
store == <<tasks, samples, guests, now, imported, call, ret, returned>>
reporting == <<modules, heap, report, invoked>>

vars == <<tasks, samples, guests, now, imported, call, ret, returned,
          modules, heap, report, invoked>>

(* ------------------------------ bounds -------------------------------- *)

MaxTasks == 3
MaxLifecycleTasks == 1
MaxGuestTasks == 2
MaxPathTasks == 2
MaxFairTasks == 2
MaxListTasks == 3
MaxStopTasks == 1
MaxModules == 2
MaxClock == 3
StartClock == 2

Workers == {"w1", "w2"}

(* ------------------------------ schema -------------------------------- *)

\* A nullable column that holds no value; row ids and clock values are >= 1.
NULL == 0

Idle == [op |-> "idle"]

\* Task(target) with the attributes add() assigns; added_on and status are
\* left to the column defaults.
Task(target, category, priority, sample_id, w) ==
    [target |-> target, category |-> category, priority |-> priority,
     added_on |-> imported[w], completed_on |-> NULL, status |-> "pending",
     sample_id |-> sample_id]

\* Sample(md5, crc32, sha1, sha256, sha512, ...) of a File object.
Sample(obj) ==
    [md5 |-> obj.md5, crc32 |-> obj.crc32, sha1 |-> obj.sha1,
     sha256 |-> obj.sha256, sha512 |-> obj.sha512]

Guest(task_id, started_on) ==
    [task_id |-> task_id, started_on |-> started_on, shutdown_on |-> NULL]

\* The unique index "hash_index" over the five hash columns.
HashIndexConflict(s) ==
    \E i \in DOMAIN samples :
        /\ samples[i].md5 = s.md5
        /\ samples[i].crc32 = s.crc32
        /\ samples[i].sha1 = s.sha1
        /\ samples[i].sha256 = s.sha256
        /\ samples[i].sha512 = s.sha512

\* The unique constraint on guests.task_id.
GuestTaskConflict(task_id) ==
    \E g \in DOMAIN guests : guests[g].task_id = task_id

(* --------------------------- inputs of calls -------------------------- *)

\* File objects handed to add(): a path and the digests of its content.
\* "a" and "b" have the same content; "c" collides with them on md5 only.
Files ==
    { [file_path |-> "a", md5 |-> 1, crc32 |-> 1, sha1 |-> 1, sha256 |-> 1, sha512 |-> 1],
      [file_path |-> "b", md5 |-> 1, crc32 |-> 1, sha1 |-> 1, sha256 |-> 1, sha512 |-> 1],
      [file_path |-> "c", md5 |-> 1, crc32 |-> 2, sha1 |-> 2, sha256 |-> 2, sha512 |-> 2] }

Urls == {"u"}

\* Paths handed to add_path(): the paths of the files above, the empty path
\* and a path at which there is no file.
Paths == {f.file_path : f \in Files} \cup {"", "missing"}

Priorities == {5, 10}

\* priority=1, the default of add(), add_path() and add_url().
DefaultPriority == 1

\* Ids passed to complete(), process(), guest_start(): every id the caller
\* can have seen, and one that does not exist.
TaskIds == 1 .. (MaxTasks + 1)

(* ------------------------------ helpers ------------------------------- *)

\* What the last ended call of method op handed to its caller: kind is "id"
\* (a row id, in id), "None", "True", "False", or the name of the exception
\* that left the call.
Ret(op, kind, id) == [op |-> op, kind |-> kind, id |-> id]

\* session.commit() either goes through or raises (the database is locked,
\* the connection is lost, a serialization failure, ...).
CommitOutcomes == {"ok", "error"}

\* What a session keeps of an object it loaded and then assigned to: the
\* columns whose value now differs from the loaded one, with the new value.
Dirty(loaded, obj) ==
    [c \in {d \in DOMAIN obj : obj[d] # loaded[d]} |-> obj[c]]

\* The UPDATE a flush emits for such an object (UPDATE ... SET the dirty
\* columns WHERE id = ?), applied to the row as it is now in the table.
Flush(cur, dirty) ==
    [c \in DOMAIN cur |-> IF c \in DOMAIN dirty THEN dirty[c] ELSE cur[c]]

\* session.query(X).get(id) gives None when no row has that id.
Exists(table, id) == id \in DOMAIN table

AddsInProgress == Cardinality({w \in Workers : call[w].op = "add"})

(* ------------------------- fetch_and_process -------------------------- *)

Pending == {i \in DOMAIN tasks : tasks[i].status = "pending"}

\* As OrderedBefore, with the newest task of a priority first.
OrderedBeforeNewestFirst(a, b) ==
    \/ a.priority > b.priority
    \/ a.priority = b.priority /\ a.added_on > b.added_on

\* ORDER BY priority desc, added_on: a sorts before b.
OrderedBefore(a, b) ==
    \/ a.priority > b.priority
    \/ a.priority = b.priority /\ a.added_on < b.added_on

\* As FirstPending, where a row comes first only when it sorts before every
\* other pending row.
FirstPendingStrictly ==
    {i \in Pending : \A j \in Pending \ {i} : OrderedBefore(tasks[i], tasks[j])}

\* filter(Task.status == "pending").order_by("priority desc, added_on")
\* .first(): the rows that can come first (rows that tie are in no
\* specified order).
FirstPending == {i \in Pending : \A j \in Pending : ~OrderedBefore(tasks[j], tasks[i])}

\* The query of fetch_and_process, and the assignment row.status = "processing".
FetchSelect(w) ==
    /\ call[w] = Idle
    /\ \/ /\ Pending = {}
          /\ call' = [call EXCEPT ![w] = [op |-> "fetch_and_process", row |-> NULL]]
       \/ \E r \in FirstPending :
            call' = [call EXCEPT ![w] =
                        [op |-> "fetch_and_process", row |-> r,
                         dirty |-> Dirty(tasks[r],
                                [tasks[r] EXCEPT !.status = "processing"])]]
    /\ UNCHANGED <<tasks, samples, guests, now, imported, reporting, ret, returned>>

\* As FetchCommit, without the return None of the except branch: the row is
\* returned after the rollback too.
FetchCommitReturnsRowAfterRollback(w) ==
    /\ call[w].op = "fetch_and_process"
    /\ call' = [call EXCEPT ![w] = Idle]
    /\ \E outcome \in CommitOutcomes :
        IF call[w].row = NULL
        THEN /\ ret' = Ret("fetch_and_process", "None", NULL)
             /\ UNCHANGED <<tasks, returned>>
        ELSE LET r == call[w].row IN
             /\ tasks' = IF outcome = "error" THEN tasks
                         ELSE [tasks EXCEPT ![r] = Flush(tasks[r], call[w].dirty)]
             /\ ret' = Ret("fetch_and_process", "id", r)
             /\ returned' = [returned EXCEPT ![r] = @ + 1]
    /\ UNCHANGED <<samples, guests, now, imported, reporting>>

\* session.commit() of fetch_and_process and the return.
FetchCommit(w) ==
    /\ call[w].op = "fetch_and_process"
    /\ call' = [call EXCEPT ![w] = Idle]
    /\ \E outcome \in CommitOutcomes :
        IF outcome = "error"
        THEN /\ ret' = Ret("fetch_and_process", "None", NULL)
             /\ UNCHANGED <<tasks, returned>>
        ELSE IF call[w].row = NULL
        THEN /\ ret' = Ret("fetch_and_process", "None", NULL)
             /\ UNCHANGED <<tasks, returned>>
        ELSE LET r == call[w].row IN
             /\ tasks' = [tasks EXCEPT ![r] = Flush(tasks[r], call[w].dirty)]
             /\ ret' = Ret("fetch_and_process", "id", r)
             /\ returned' = [returned EXCEPT ![r] = @ + 1]
    /\ UNCHANGED <<samples, guests, now, imported, reporting>>

(* ------------------------ _set_status / process ----------------------- *)

\* session.query(Task).get(task_id).status = status
SetStatusLoad(w, task_id, status) ==
    /\ call[w] = Idle
    /\ IF Exists(tasks, task_id)
       THEN /\ call' = [call EXCEPT ![w] =
                           [op |-> "process", row |-> task_id,
                            dirty |-> Dirty(tasks[task_id],
                                   [tasks[task_id] EXCEPT !.status = status])]]
            /\ UNCHANGED ret
       ELSE /\ ret' = Ret("process", "AttributeError", NULL)
            /\ UNCHANGED call
    /\ UNCHANGED <<tasks, samples, guests, now, imported, reporting, returned>>

SetStatusCommit(w) ==
    /\ call[w].op = "process"
    /\ call' = [call EXCEPT ![w] = Idle]
    /\ \E outcome \in CommitOutcomes :
        IF outcome = "error"
        THEN /\ ret' = Ret("process", "False", NULL)
             /\ UNCHANGED tasks
        ELSE LET r == call[w].row IN
             /\ tasks' = [tasks EXCEPT ![r] = Flush(tasks[r], call[w].dirty)]
             /\ ret' = Ret("process", "True", NULL)
    /\ UNCHANGED <<samples, guests, now, imported, reporting, returned>>

ProcessLoad(w, task_id) == SetStatusLoad(w, task_id, "processing")

(* ------------------------------ complete ------------------------------ *)

CompleteStatus(success) == IF success THEN "success" ELSE "failure"

\* session.query(Task).get(task_id), then the two assignments.
CompleteLoad(w, task_id, success) ==
    /\ call[w] = Idle
    /\ IF Exists(tasks, task_id)
       THEN /\ call' = [call EXCEPT ![w] =
                           [op |-> "complete", row |-> task_id, success |-> success,
                            dirty |-> Dirty(tasks[task_id],
                                   [tasks[task_id] EXCEPT
                                        !.status = CompleteStatus(success),
                                        !.completed_on = now])]]
            /\ UNCHANGED ret
       ELSE /\ ret' = Ret("complete", "AttributeError", NULL)
            /\ UNCHANGED call
    /\ UNCHANGED <<tasks, samples, guests, now, imported, reporting, returned>>

CompleteCommit(w) ==
    /\ call[w].op = "complete"
    /\ call' = [call EXCEPT ![w] = Idle]
    /\ \E outcome \in CommitOutcomes :
        IF outcome = "error"
        THEN /\ ret' = Ret("complete", "False", NULL)
             /\ UNCHANGED tasks
        ELSE LET r == call[w].row IN
             /\ tasks' = [tasks EXCEPT ![r] = Flush(tasks[r], call[w].dirty)]
             /\ ret' = Ret("complete", "True", NULL)
    /\ UNCHANGED <<samples, guests, now, imported, reporting, returned>>

(* ------------------------- guest_start / guest_stop ------------------- *)

\* The Guest row the relationship Task.guest loads for a task (NULL: none).
GuestOf(task_id) ==
    IF GuestTaskConflict(task_id)
    THEN CHOOSE g \in DOMAIN guests : guests[g].task_id = task_id
    ELSE NULL

\* As GuestStartLoad, where the guest is kept in the session for a task id
\* of no task too.
GuestStartLoadAnyTask(w, task_id) ==
    /\ call[w] = Idle
    /\ call' = [call EXCEPT ![w] =
                    [op |-> "guest_start", task_id |-> task_id,
                     started_on |-> now, old |-> GuestOf(task_id)]]
    /\ UNCHANGED <<tasks, samples, guests, now, imported, reporting, ret, returned>>

\* guest = Guest(...); guest.started_on = datetime.now();
\* session.query(Task).get(task_id).guest = guest.  The assignment loads the
\* guest the task is linked to, which the session then unlinks.
GuestStartLoad(w, task_id) ==
    /\ call[w] = Idle
    /\ IF Exists(tasks, task_id)
       THEN /\ call' = [call EXCEPT ![w] =
                           [op |-> "guest_start", task_id |-> task_id,
                            started_on |-> now, old |-> GuestOf(task_id)]]
            /\ UNCHANGED ret
       ELSE /\ ret' = Ret("guest_start", "AttributeError", NULL)
            /\ UNCHANGED call
    /\ UNCHANGED <<tasks, samples, guests, now, imported, reporting, returned>>

\* As GuestStartRefused, with guests.task_id not unique.
GuestStartRefusedWithoutUnique(w) == call[w].old # NULL

\* The flush of guest_start: the guest it unlinked gets task_id = NULL, which
\* the NOT NULL column refuses; the new row is refused when another guest row
\* already carries its task_id.
GuestStartRefused(w) ==
    \/ call[w].old # NULL
    \/ GuestTaskConflict(call[w].task_id)

GuestStartCommit(w) ==
    /\ call[w].op = "guest_start"
    /\ call' = [call EXCEPT ![w] = Idle]
    /\ \E outcome \in CommitOutcomes :
        IF outcome = "error" \/ GuestStartRefused(w)
        THEN /\ ret' = Ret("guest_start", "None", NULL)
             /\ UNCHANGED guests
        ELSE /\ guests' = Append(guests, Guest(call[w].task_id, call[w].started_on))
             /\ ret' = Ret("guest_start", "id", Len(guests) + 1)
    /\ UNCHANGED <<tasks, samples, now, imported, reporting, returned>>

\* session.query(Guest).get(guest_id).shutdown_on = datetime.now()
GuestStopLoad(w, guest_id) ==
    /\ call[w] = Idle
    /\ IF Exists(guests, guest_id)
       THEN /\ call' = [call EXCEPT ![w] =
                           [op |-> "guest_stop", row |-> guest_id,
                            dirty |-> Dirty(guests[guest_id],
                                   [guests[guest_id] EXCEPT !.shutdown_on = now])]]
            /\ UNCHANGED ret
       ELSE /\ ret' = Ret("guest_stop", "AttributeError", NULL)
            /\ UNCHANGED call
    /\ UNCHANGED <<tasks, samples, guests, now, imported, reporting, returned>>

GuestStopCommit(w) ==
    /\ call[w].op = "guest_stop"
    /\ call' = [call EXCEPT ![w] = Idle]
    /\ ret' = Ret("guest_stop", "None", NULL)
    /\ \E outcome \in CommitOutcomes :
        IF outcome = "error"
        THEN UNCHANGED guests
        ELSE LET g == call[w].row IN
             guests' = [guests EXCEPT ![g] = Flush(guests[g], call[w].dirty)]
    /\ UNCHANGED <<tasks, samples, now, imported, reporting, returned>>

(* --------------------------------- add -------------------------------- *)

\* session.query(Sample).filter(Sample.md5 == obj.get_md5()): the rows that
\* first() can give (no ORDER BY: any of them).
SamplesByMd5(obj) == {i \in DOMAIN samples : samples[i].md5 = obj.md5}

\* add(File): session.add(sample); session.commit().  The unique index
\* raises IntegrityError; any other failure of the commit leaves add().
AddFileSample(w, obj, priority) ==
    /\ call[w] = Idle
    /\ Len(tasks) + AddsInProgress < MaxTasks
    /\ \E outcome \in CommitOutcomes :
        IF HashIndexConflict(Sample(obj))
        THEN /\ call' = [call EXCEPT ![w] =
                            [op |-> "add", at |-> "IntegrityError",
                             obj |-> obj, priority |-> priority]]
             /\ UNCHANGED <<samples, ret>>
        ELSE IF outcome = "error"
        THEN /\ ret' = Ret("add", "SQLAlchemyError", NULL)
             /\ UNCHANGED <<samples, call>>
        ELSE /\ samples' = Append(samples, Sample(obj))
             /\ call' = [call EXCEPT ![w] =
                            [op |-> "add", at |-> "task", obj |-> obj,
                             priority |-> priority, sample_id |-> Len(samples) + 1,
                             created |-> TRUE]]
             /\ UNCHANGED ret
    /\ UNCHANGED <<tasks, guests, now, imported, reporting, returned>>

\* except IntegrityError: session.rollback(); sample = ...first()
AddFileRequery(w) ==
    /\ call[w].op = "add"
    /\ call[w].at = "IntegrityError"
    /\ \E s \in SamplesByMd5(call[w].obj) :
        call' = [call EXCEPT ![w] =
                    [op |-> "add", at |-> "task", obj |-> call[w].obj,
                     priority |-> call[w].priority, sample_id |-> s,
                     created |-> FALSE]]
    /\ UNCHANGED <<tasks, samples, guests, now, imported, reporting, ret, returned>>

\* task = Task(obj.file_path); task.sample_id = sample.id; ...;
\* session.add(task); session.commit()
AddFileTask(w) ==
    /\ call[w].op = "add"
    /\ call[w].at = "task"
    /\ call' = [call EXCEPT ![w] = Idle]
    /\ \E outcome \in CommitOutcomes :
        IF outcome = "error"
        THEN /\ ret' = Ret("add", "None", NULL)
             /\ UNCHANGED tasks
        ELSE /\ tasks' = Append(tasks, Task(call[w].obj.file_path, "file",
                                            call[w].priority, call[w].sample_id, w))
             /\ ret' = Ret("add", "id", Len(tasks) + 1)
    /\ UNCHANGED <<samples, guests, now, imported, reporting, returned>>

\* add(URL): task = Task(obj.url); ...; session.add(task); session.commit()
AddUrl(w, url, priority) ==
    /\ call[w] = Idle
    /\ Len(tasks) + AddsInProgress < MaxTasks
    /\ \E outcome \in CommitOutcomes :
        IF outcome = "error"
        THEN /\ ret' = Ret("add", "None", NULL)
             /\ UNCHANGED tasks
        ELSE /\ tasks' = Append(tasks, Task(url, "url", priority, NULL, w))
             /\ ret' = Ret("add", "id", Len(tasks) + 1)
    /\ UNCHANGED <<samples, guests, now, imported, reporting, call, returned>>

(* ------------------------------ add_path ------------------------------ *)

\* os.path.exists(file_path)
PathExists(file_path) == \E f \in Files : f.file_path = file_path

\* File(file_path): the object whose digests add() reads.
File(file_path) == CHOOSE f \in Files : f.file_path = file_path

\* As AddPath, without the test of the path: at a path where there is
\* nothing to read the digests are those of no content.
AddPathUnchecked(w, file_path, priority) ==
    AddFileSample(w,
                  IF PathExists(file_path) THEN File(file_path)
                  ELSE [file_path |-> file_path, md5 |-> 0, crc32 |-> 0, sha1 |-> 0,
                        sha256 |-> 0, sha512 |-> 0],
                  priority)

\* if not file_path or not os.path.exists(file_path): return None;
\* return self.add(File(file_path), ...), up to the first commit of add().
AddPath(w, file_path, priority) ==
    IF file_path = "" \/ ~PathExists(file_path)
    THEN /\ call[w] = Idle
         /\ ret' = Ret("add_path", "None", NULL)
         /\ UNCHANGED <<tasks, samples, guests, now, imported, reporting, call, returned>>
    ELSE AddFileSample(w, File(file_path), priority)

(* ------------------------------ list_tasks ---------------------------- *)

\* limit=None (no LIMIT clause) or a number of rows.
Limits == {NULL, 1, 2}

\* order_by("added_on desc"): the orders in which the store can give the
\* rows (rows of equal added_on are in no specified order).
AddedOnDesc ==
    {s \in [1 .. Len(tasks) -> DOMAIN tasks] :
        /\ \A i, j \in 1 .. Len(tasks) : i # j => s[i] # s[j]
        /\ \A i, j \in 1 .. Len(tasks) :
              i < j => tasks[s[i]].added_on >= tasks[s[j]].added_on}

\* .limit(limit)
Limit(s, limit) ==
    IF limit = NULL \/ limit >= Len(s) THEN s ELSE SubSeq(s, 1, limit)

\* list_tasks(limit): the rows the returned query gives its caller; no
\* commit, nothing is written.
ListTasks(w, limit) ==
    /\ call[w] = Idle
    /\ \E s \in AddedOnDesc :
         ret' = [op |-> "list_tasks", kind |-> "rows", id |-> NULL,
                 limit |-> limit, rows |-> Limit(s, limit)]
    /\ UNCHANGED <<tasks, samples, guests, now, imported, reporting, call, returned>>

(* ------------------------------ the clock ----------------------------- *)

Tick ==
    /\ now < MaxClock
    /\ now' = now + 1
    /\ UNCHANGED <<tasks, samples, guests, imported, reporting, call, ret, returned>>

(* --------------------------- Reporter.run ----------------------------- *)

\* The values of the module attribute "order".
Orders == {1, 2}

\* A loaded reporting module, a subclass of Report: its order and whether
\* reporting.conf has a section of its name.
ReportClasses == [order : Orders, configured : BOOLEAN]

\* How current.run() of a reporting module ends: it returns, or it raises
\* one of the two exceptions _run_report handles, or another exception.
RunOutcomes == {"ok", "NotImplementedError", "CuckooReportError", "Exception"}

\* What a reporting module does to the dictionary it is given: nothing, an
\* assignment to one of its keys, an assignment inside a dictionary it nests.
Edits == {"none", "top", "nested"}

\* The results dictionary is the object at heap[a]: its key "verdict" holds
\* a value, its key "info" the address of a nested dictionary with a key
\* "score".  What a reader of the dictionary at a sees:
Deref(h, a) == [verdict |-> h[a].verdict, score |-> h[h[a].info].score]

\* As DeepCopy, with copy.copy: a new dictionary whose keys hold the same
\* objects.
ShallowCopy(h, a) ==
    Append(h, [verdict |-> h[a].verdict, info |-> h[a].info])

\* copy.deepcopy(results): a new nested dictionary and a new dictionary that
\* holds it; the copy is the last object of the heap.
DeepCopy(h, a) ==
    LET nested == Append(h, [score |-> h[h[a].info].score])
    IN  Append(nested, [verdict |-> h[a].verdict, info |-> Len(nested)])

\* The assignments a module makes to the dictionary at a.
Edit(h, a, edit) ==
    CASE edit = "none" -> h
      [] edit = "top" -> [h EXCEPT ![a].verdict = 1]
      [] edit = "nested" -> [h EXCEPT ![h[a].info].score = 1]

\* modules_list.sort(key=lambda module: module.order): ascending, and stable
\* (modules of equal order stay in the order of __subclasses__()).
SortsBefore(a, b) ==
    \/ modules[a].order < modules[b].order
    \/ modules[a].order = modules[b].order /\ a < b

SortedByOrder ==
    CHOOSE s \in [DOMAIN modules -> DOMAIN modules] :
        \A i, j \in DOMAIN modules : i < j => SortsBefore(s[i], s[j])

\* _populate: __import__ of an enabled reporting module defines a subclass
\* of Report, which Report.__subclasses__() lists from then on.
Populate(class) ==
    /\ report.pc = "idle"
    /\ Len(modules) < MaxModules
    /\ modules' = Append(modules, class)
    /\ UNCHANGED <<store, heap, report, invoked>>

\* run(results) up to the loop: Report(); modules_list =
\* Report.__subclasses__(); modules_list.sort(...).
RunEnter ==
    /\ report.pc = "idle"
    /\ report' = [report EXCEPT !.pc = "loop", !.modules_list = SortedByOrder, !.i = 1]
    /\ UNCHANGED <<store, modules, heap, invoked>>

\* One pass of "for module in modules_list: self._run_report(module,
\* results)".  A module without a section in reporting.conf ends run() with
\* CuckooReportError before its run() is called; otherwise the module's
\* run() gets a deep copy, and NotImplementedError and CuckooReportError
\* from it are caught, any other exception leaves run().
RunReport ==
    /\ report.pc = "loop"
    /\ report.i <= Len(report.modules_list)
    /\ LET m == report.modules_list[report.i] IN
       IF ~modules[m].configured
       THEN /\ report' = [report EXCEPT !.pc = "CuckooReportError"]
            /\ UNCHANGED <<heap, invoked>>
       ELSE \E edit \in Edits, outcome \in RunOutcomes :
            LET copied == DeepCopy(heap, report.results)
                arg == Len(copied)
            IN  /\ invoked' = Append(invoked,
                        [module |-> m, seen |-> Deref(copied, arg),
                         edit |-> edit, outcome |-> outcome])
                /\ heap' = Edit(copied, arg, edit)
                /\ report' = IF outcome = "Exception"
                             THEN [report EXCEPT !.pc = "Exception"]
                             ELSE [report EXCEPT !.i = @ + 1]
    /\ UNCHANGED <<store, modules>>

\* The loop is over: run() returns.
RunReturn ==
    /\ report.pc = "loop"
    /\ report.i > Len(report.modules_list)
    /\ report' = [report EXCEPT !.pc = "done"]
    /\ UNCHANGED <<store, modules, heap, invoked>>

(* --------------------------- specifications --------------------------- *)

\* The store after Base.metadata.create_all() on a new database: no rows.
\* Process w1 imported database.py first, process w2 just now.  No reporting
\* module is loaded yet; the results dictionary of the analysis is at
\* heap[2].
Init ==
    /\ tasks = <<>>
    /\ samples = <<>>
    /\ guests = <<>>
    /\ now = StartClock
    /\ imported = [w \in Workers |-> IF w = "w1" THEN 1 ELSE StartClock]
    /\ call = [w \in Workers |-> Idle]
    /\ ret = Ret("none", "None", NULL)
    /\ returned = [t \in 1 .. (MaxTasks + 1) |-> 0]
    /\ modules = <<>>
    /\ heap = <<[score |-> 0], [verdict |-> 0, info |-> 1]>>
    /\ report = [pc |-> "idle", results |-> 2, modules_list |-> <<>>, i |-> 0]
    /\ invoked = <<>>

Next ==
    \/ \E w \in Workers : FetchSelect(w)
    \/ \E w \in Workers : FetchCommit(w)
    \/ \E w \in Workers, t \in TaskIds : ProcessLoad(w, t)
    \/ \E w \in Workers : SetStatusCommit(w)
    \/ \E w \in Workers, t \in TaskIds, s \in BOOLEAN : CompleteLoad(w, t, s)
    \/ \E w \in Workers : CompleteCommit(w)
    \/ \E w \in Workers, t \in TaskIds : GuestStartLoad(w, t)
    \/ \E w \in Workers : GuestStartCommit(w)
    \/ \E w \in Workers, g \in TaskIds : GuestStopLoad(w, g)
    \/ \E w \in Workers : GuestStopCommit(w)
    \/ \E w \in Workers, f \in Files, p \in Priorities : AddFileSample(w, f, p)
    \/ \E w \in Workers : AddFileRequery(w)
    \/ \E w \in Workers : AddFileTask(w)
    \/ \E w \in Workers, u \in Urls, p \in Priorities : AddUrl(w, u, p)
    \/ Tick
    \/ \E class \in ReportClasses : Populate(class)
    \/ RunEnter
    \/ RunReport
    \/ RunReturn

Spec == Init /\ [][Next]_vars

\* Concurrent claims of submitted urls of differing priority.
NextClaim ==
    \/ \E w \in Workers : FetchSelect(w)
    \/ \E w \in Workers : FetchCommit(w)
    \/ \E w \in Workers, u \in Urls, p \in Priorities : AddUrl(w, u, p)

SpecClaim == Init /\ [][NextClaim]_vars

\* The life of a task: submission, the claim, process(), completion.
NextLifecycle ==
    \/ \E w \in Workers : FetchSelect(w)
    \/ \E w \in Workers : FetchCommit(w)
    \/ \E w \in Workers, t \in TaskIds : ProcessLoad(w, t)
    \/ \E w \in Workers : SetStatusCommit(w)
    \/ \E w \in Workers, t \in TaskIds, s \in BOOLEAN : CompleteLoad(w, t, s)
    \/ \E w \in Workers : CompleteCommit(w)
    \/ \E w \in Workers, u \in Urls :
          Len(tasks) < MaxLifecycleTasks /\ AddUrl(w, u, DefaultPriority)
    \/ Tick

SpecLifecycle == Init /\ [][NextLifecycle]_vars

\* File submissions alone.
NextSample ==
    \/ \E w \in Workers, f \in Files, p \in Priorities : AddFileSample(w, f, p)
    \/ \E w \in Workers : AddFileRequery(w)
    \/ \E w \in Workers : AddFileTask(w)

SpecSample == Init /\ [][NextSample]_vars

\* Guest bookkeeping for submitted tasks.
NextGuest ==
    \/ \E w \in Workers, u \in Urls :
          Len(tasks) < MaxGuestTasks /\ AddUrl(w, u, DefaultPriority)
    \/ \E w \in Workers, t \in TaskIds : GuestStartLoad(w, t)
    \/ \E w \in Workers : GuestStartCommit(w)
    \/ \E w \in Workers, g \in TaskIds : GuestStopLoad(w, g)
    \/ \E w \in Workers : GuestStopCommit(w)

SpecGuest == Init /\ [][NextGuest]_vars

\* The guest of one task, started and stopped while the clock runs.
NextGuestStop ==
    \/ \E w \in Workers, u \in Urls :
          Len(tasks) < MaxStopTasks /\ AddUrl(w, u, DefaultPriority)
    \/ \E w \in Workers, t \in TaskIds : GuestStartLoad(w, t)
    \/ \E w \in Workers : GuestStartCommit(w)
    \/ \E w \in Workers, g \in TaskIds : GuestStopLoad(w, g)
    \/ \E w \in Workers : GuestStopCommit(w)
    \/ Tick

SpecGuestStop == Init /\ [][NextGuestStop]_vars

\* The claim operations with workers that keep calling fetch_and_process():
\* a call that can start does start, a call in progress comes to its commit,
\* and a commit that is tried again and again goes through at some time.
NextClaimFair ==
    \/ \E w \in Workers : FetchSelect(w)
    \/ \E w \in Workers : FetchCommit(w)
    \/ \E w \in Workers, u \in Urls, p \in Priorities :
          /\ Len(tasks) < MaxFairTasks
          /\ AddUrl(w, u, p)

SpecClaimFair ==
    /\ Init /\ [][NextClaimFair]_vars
    /\ \A w \in Workers :
        /\ WF_vars(FetchSelect(w))
        /\ WF_vars(FetchCommit(w))
        /\ SF_vars(FetchCommit(w) /\ ret'.kind = "id")

\* Submissions of several processes and listings of the queue.
NextList ==
    \/ \E w \in Workers, u \in Urls :
          /\ Len(tasks) < MaxListTasks
          /\ AddUrl(w, u, DefaultPriority)
    \/ \E w \in Workers, limit \in Limits : ListTasks(w, limit)
    \/ Tick

SpecList == Init /\ [][NextList]_vars

\* Submissions by path and by url.
NextPath ==
    \/ \E w \in Workers, f \in Paths :
          /\ Len(tasks) + AddsInProgress < MaxPathTasks
          /\ AddPath(w, f, DefaultPriority)
    \/ \E w \in Workers : AddFileRequery(w)
    \/ \E w \in Workers : AddFileTask(w)
    \/ \E w \in Workers, u \in Urls :
          /\ Len(tasks) + AddsInProgress < MaxPathTasks
          /\ AddUrl(w, u, DefaultPriority)

SpecPath == Init /\ [][NextPath]_vars

\* The reporting engine: modules are loaded, then run() goes through them.
NextReport ==
    \/ \E class \in ReportClasses : Populate(class)
    \/ RunEnter
    \/ RunReport
    \/ RunReturn

SpecReport == Init /\ [][NextReport]_vars

(* ======================= the claims, C1 .. C21 ======================== *)

\* A step in which the call of method op by process w ends.
Ends(w, op) == call[w].op = op /\ call'[w] = Idle

(* C1: for any interleaving of fetch_and_process() calls by concurrent
   workers, no two calls return the same task: a task that one call has
   returned is never returned by another call. *)
NoTaskClaimedTwice == \A t \in DOMAIN returned : returned[t] <= 1

(* C2: the task fetch_and_process() selects, and returns when its commit
   goes through, is among the tasks that are 'pending' at the moment of the
   selection one with the highest priority and, among those of that
   priority, one with the earliest added_on; it selects none only when no
   task is pending. *)
IsBestPending(r) ==
    /\ r \in DOMAIN tasks
    /\ tasks[r].status = "pending"
    /\ \A j \in DOMAIN tasks :
        tasks[j].status = "pending" =>
            /\ tasks[j].priority <= tasks[r].priority
            /\ tasks[j].priority = tasks[r].priority =>
                   tasks[r].added_on <= tasks[j].added_on

ClaimsBestPending ==
    [][\A w \in Workers :
        /\ (call[w] = Idle /\ call'[w].op = "fetch_and_process") =>
              IF \E j \in DOMAIN tasks : tasks[j].status = "pending"
              THEN IsBestPending(call'[w].row)
              ELSE call'[w].row = NULL
        /\ (Ends(w, "fetch_and_process") /\ ret'.kind = "id") =>
              ret'.id = call[w].row]_vars

\* C2's example: A (priority 5, early), B (priority 10, late), C (priority
\* 10, early) were submitted, and the first claim returned C.
ClaimedHighestEarliestFirst ==
    \E a, b, c \in DOMAIN tasks :
        /\ tasks[a].priority = 5 /\ tasks[b].priority = 10 /\ tasks[c].priority = 10
        /\ tasks[a].added_on = tasks[c].added_on
        /\ tasks[c].added_on < tasks[b].added_on
        /\ tasks[a].status = "pending" /\ tasks[b].status = "pending"
        /\ tasks[c].status = "processing"
        /\ ret = Ret("fetch_and_process", "id", c)

(* C3: for files with one hash tuple H submitted by concurrent producers,
   the store holds one Sample row carrying H and every resulting task
   references that row; no two Sample rows share all five hash values. *)
FileAt(path) == CHOOSE f \in Files : f.file_path = path

OneSamplePerHashTuple ==
    /\ \A i, j \in DOMAIN samples : samples[i] = samples[j] => i = j
    /\ \A t \in DOMAIN tasks :
        tasks[t].category = "file" =>
            samples[tasks[t].sample_id] = Sample(FileAt(tasks[t].target))

(* C4: every change of a task's status is a permitted transition: a new
   task is 'pending'; 'pending' -> 'processing' happens only in the claim
   operation; 'processing' -> 'success' or 'failure' happens only in
   complete(); there is no other change. *)
OnlyPermittedTransitions ==
    [][/\ \A t \in DOMAIN tasks' :
            t \notin DOMAIN tasks => tasks'[t].status = "pending"
       /\ \A t \in DOMAIN tasks :
            tasks'[t].status # tasks[t].status =>
                \/ /\ tasks[t].status = "pending"
                   /\ tasks'[t].status = "processing"
                   /\ \E w \in Workers : Ends(w, "fetch_and_process")
                \/ /\ tasks[t].status = "processing"
                   /\ tasks'[t].status \in {"success", "failure"}
                   /\ \E w \in Workers : Ends(w, "complete")]_vars

(* C5: completed_on is null as long as the task is 'pending' or
   'processing', and once it is set no later operation writes it again. *)
CompletedOnSetOnce ==
    [][/\ \A t \in DOMAIN tasks' :
            tasks'[t].status \in {"pending", "processing"} =>
                tasks'[t].completed_on = NULL
       /\ \A t \in DOMAIN tasks :
            tasks[t].completed_on # NULL =>
                tasks'[t].completed_on = tasks[t].completed_on]_vars

(* C6: fetch_and_process() never returns a task whose transition to
   'processing' was not committed: a call that returns a task leaves that
   task 'processing' in the store at the moment it returns, and a call
   that returns None leaves the tasks table as it was. *)
ReturnsOnlyCommittedClaims ==
    [][\A w \in Workers :
        Ends(w, "fetch_and_process") =>
            \/ /\ ret'.kind = "id"
               /\ ret'.id \in DOMAIN tasks'
               /\ tasks'[ret'.id].status = "processing"
            \/ /\ ret'.kind = "None"
               /\ tasks' = tasks]_vars

\* A call returned a task, now 'processing', that another process has
\* selected too and not yet committed.
ClaimReturnedProcessing ==
    /\ ret.op = "fetch_and_process"
    /\ ret.kind = "id"
    /\ tasks[ret.id].status = "processing"
    /\ \E w \in Workers : call[w].op = "fetch_and_process" /\ call[w].row = ret.id

(* C7: when complete(task_id, success) returns True, the task's status is
   'success' if success is true and 'failure' otherwise and its
   completed_on is non-null; a complete() on a task whose completed_on is
   set does not change it to an earlier value. *)
CompleteSetsTerminalState ==
    [][\A w \in Workers :
        (Ends(w, "complete") /\ ret'.kind = "True") =>
            LET t == call[w].row IN
            /\ tasks'[t].status = (IF call[w].success THEN "success" ELSE "failure")
            /\ tasks'[t].completed_on # NULL
            /\ tasks[t].completed_on # NULL =>
                   tasks'[t].completed_on >= tasks[t].completed_on]_vars

(* C8: at most one Guest row references any task, in every reachable
   state; a guest_start for a task that has a linked Guest returns no guest
   id and leaves the guests table as it was. *)
Linked(t) == {g \in DOMAIN guests : guests[g].task_id = t}

OneGuestPerTask ==
    /\ [](\A t \in DOMAIN tasks : Cardinality(Linked(t)) <= 1)
    /\ [][\A w \in Workers :
            (Ends(w, "guest_start") /\ Linked(call[w].task_id) # {}) =>
                /\ ret'.kind = "None"
                /\ guests' = guests]_vars

\* Every task has its one guest, and the guest_start that ended last, for
\* one of them, returned None.
SecondGuestStartRefused ==
    /\ tasks # <<>>
    /\ \A t \in DOMAIN tasks : Cardinality(Linked(t)) = 1
    /\ \A w \in Workers : call[w] = Idle
    /\ ret = Ret("guest_start", "None", NULL)

(* C9: an add() of a file that returns None because the commit of the Task
   insert failed leaves no row of that call in the store: no Sample row it
   inserted and no Task row. *)
FailedAddLeavesNoRow ==
    [][\A w \in Workers :
        (Ends(w, "add") /\ ret'.kind = "None") =>
            /\ tasks' = tasks
            /\ ~call[w].created]_vars

(* C10: the Sample that add() falls back to after the uniqueness conflict
   is the row whose five hash values equal those of the submitted file. *)
FallbackFindsSubmittedHashes ==
    [][\A w \in Workers :
        (/\ call[w].op = "add" /\ call[w].at = "IntegrityError"
         /\ call'[w].op = "add" /\ call'[w].at = "task") =>
            samples[call'[w].sample_id] = Sample(call[w].obj)]_vars

(* C11: add_path() with an empty path or a path that does not exist returns
   None and creates no Task row and no Sample row: when it returns so the
   store is as it was, and no row of the store stems from such a path. *)
OnDisk == {f.file_path : f \in Files}

MissingPathAddsNothing ==
    /\ [](\A t \in DOMAIN tasks :
            tasks[t].category = "file" => tasks[t].target \in OnDisk)
    /\ [](\A i \in DOMAIN samples : \E f \in Files : samples[i].md5 = f.md5)
    /\ [][(ret' # ret /\ ret'.op = "add_path") =>
            /\ ret'.kind = "None"
            /\ UNCHANGED <<tasks, samples, guests>>]_vars

\* add_path() of a missing path returned None on a store that holds rows.
MissingPathRefused ==
    /\ ret = Ret("add_path", "None", NULL)
    /\ tasks # <<>>
    /\ samples # <<>>

(* C12: a task created by add_path has category 'file' and a sample_id of
   an existing Sample row; a task created by add_url has category 'url'
   and a null sample_id, and add_url creates no Sample row; files of
   identical content share one Sample row, which their tasks reference. *)
FileAndUrlTasks ==
    /\ [](\A i, j \in DOMAIN samples : samples[i] = samples[j] => i = j)
    /\ [](\A t, u \in DOMAIN tasks :
            (/\ tasks[t].category = "file" /\ tasks[u].category = "file"
             /\ Sample(FileAt(tasks[t].target)) = Sample(FileAt(tasks[u].target)))
            => tasks[t].sample_id = tasks[u].sample_id)
    /\ [][Len(tasks') > Len(tasks) =>
            LET new == tasks'[Len(tasks')] IN
            IF \E w \in Workers : Ends(w, "add")
            THEN /\ new.category = "file"
                 /\ new.sample_id \in DOMAIN samples'
            ELSE /\ new.category = "url"
                 /\ new.sample_id = NULL
                 /\ samples' = samples]_vars

(* C13: added_on of a task is the clock time at which it was created and
   never changes afterwards (so a task a process creates at a later clock
   time than another has a strictly later added_on). *)
AddedOnIsCreationTime ==
    [][/\ Len(tasks') > Len(tasks) => tasks'[Len(tasks')].added_on = now
       /\ \A t \in DOMAIN tasks : tasks'[t].added_on = tasks[t].added_on]_vars

Tied(a, b) == a.priority = b.priority /\ a.added_on = b.added_on

(* C14, as amended: with finitely many tasks enqueued and workers that keep
   calling fetch_and_process(), every task that is 'pending' is
   'processing' at some later time (in whatever order tasks that tie on
   priority and added_on are taken). *)
EveryPendingTaskClaimed ==
    \A t \in TaskIds :
        (t \in DOMAIN tasks /\ tasks[t].status = "pending")
            ~> (t \in DOMAIN tasks /\ tasks[t].status = "processing")

\* No two queries rank two tied tasks, both pending for both queries, in
\* opposite orders.
StableTieOrder ==
    \A v, w \in Workers :
        (/\ call[v].op = "fetch_and_process" /\ call[v].row # NULL
         /\ call[w].op = "fetch_and_process" /\ call[w].row # NULL
         /\ tasks[call[v].row].status = "pending"
         /\ tasks[call[w].row].status = "pending"
         /\ Tied(tasks[call[v].row], tasks[call[w].row]))
        => call[v].row = call[w].row

(* C14, as stated: every pending task is claimed at some later time, and
   ties on equal priority and equal added_on are resolved by a stable
   order. *)
NoPendingTaskSkipped == EveryPendingTaskClaimed /\ []StableTieOrder

\* Two tasks that tied have both been claimed.
TiedTasksClaimed ==
    \E t, u \in DOMAIN tasks :
        /\ t # u
        /\ Tied(tasks[t], tasks[u])
        /\ tasks[t].status = "processing"
        /\ tasks[u].status = "processing"

(* C15: list_tasks(limit) returns the tasks ordered by added_on
   descending, at most limit of them and those of the latest added_on;
   with limit = 1 it returns only the task added most recently (the one
   of the highest id); it changes no state. *)
ListsLatestFirst ==
    [][(ret'.op = "list_tasks" /\ ret' # ret) =>
        LET rows == ret'.rows
            n == ret'.limit
            listed == {rows[i] : i \in DOMAIN rows}
        IN  /\ UNCHANGED <<tasks, samples, guests, call>>
            /\ listed \subseteq DOMAIN tasks
            /\ \A i, j \in DOMAIN rows : i # j => rows[i] # rows[j]
            /\ \A i, j \in DOMAIN rows :
                 i < j => tasks[rows[i]].added_on >= tasks[rows[j]].added_on
            /\ Len(rows) = IF n = NULL \/ n >= Len(tasks) THEN Len(tasks) ELSE n
            /\ \A r \in listed, t \in DOMAIN tasks \ listed :
                 tasks[r].added_on >= tasks[t].added_on
            /\ (n = 1 /\ tasks # <<>>) => rows = <<Len(tasks)>>]_vars

(* C16: complete() with an id of no task reports a not-found failure as a
   result of the operation, which differs from the False of a failed
   commit, and leaves every row of the store as it was.  (The call ends at
   the lookup: no call record is opened.) *)
CompleteReportsNotFound ==
    [][(ret' # ret /\ ret'.op = "complete" /\ call' = call) =>
        /\ ret'.kind = "NotFoundError"
        /\ UNCHANGED <<tasks, samples, guests>>]_vars

(* C17: guest_stop sets shutdown_on only when it is not set: once set, the
   value of the first guest_stop stays. *)
ShutdownOnSetOnce ==
    [][\A g \in DOMAIN guests :
        guests[g].shutdown_on # NULL =>
            guests'[g].shutdown_on = guests[g].shutdown_on]_vars

(* C18: guest_stop() with an id of no Guest row raises nothing: it returns
   normally (None) and leaves the store as it was. *)
GuestStopIgnoresMissingGuest ==
    [][(ret' # ret /\ ret'.op = "guest_stop" /\ call' = call) =>
        /\ ret'.kind = "None"
        /\ UNCHANGED <<tasks, samples, guests>>]_vars

(* C19: guest_start() with a task id of no task fails (it returns no guest
   id) and leaves the Guest rows as they were: no Guest row of the store
   belongs to a task that does not exist.  (The call ends at the lookup: no
   call record is opened.) *)
MissingTaskGetsNoGuest ==
    /\ [](\A g \in DOMAIN guests : guests[g].task_id \in DOMAIN tasks)
    /\ [][(ret' # ret /\ ret'.op = "guest_start" /\ call' = call) =>
            /\ ret'.kind = "AttributeError"
            /\ guests' = guests]_vars

\* guest_start() of a missing task id failed on a store that holds a task
\* and its guest.
GuestStartOfMissingTaskFailed ==
    /\ ret = Ret("guest_start", "AttributeError", NULL)
    /\ tasks # <<>>
    /\ guests # <<>>

(* C20: a fetch_and_process() that returns a task changes the status of
   that task from 'pending' to 'processing' and nothing else in the store;
   one that returns None (no task is pending) changes nothing. *)
ClaimChangesOnlyStatus ==
    [][\A w \in Workers :
        Ends(w, "fetch_and_process") =>
            /\ UNCHANGED <<samples, guests>>
            /\ IF ret'.kind = "id"
               THEN /\ tasks[ret'.id].status = "pending"
                    /\ tasks' = [tasks EXCEPT ![ret'.id].status = "processing"]
               ELSE /\ ret'.kind = "None"
                    /\ tasks' = tasks]_vars

(* C21: Reporter.run(results) calls run() of every loaded reporting module
   exactly once, in non-decreasing order of the modules' order attribute; a
   module whose run() raises CuckooReportError or NotImplementedError does
   not keep run() from going on to the modules after it (run() stops early
   only on another exception or on a module without a configuration
   section); every module is given a deep copy of results, so that each
   sees the results as they were handed to run(), whatever the modules
   before it did to their copies. *)
Handled == {"NotImplementedError", "CuckooReportError"}

====
